---- MODULE Spec2Model ----
(***************************************************************************)
(* Apex-Timer backend: the in-memory store (MemStorage), the study         *)
(* statistics aggregator (increaseStudyTime), the request handlers that    *)
(* drive them and their dispatch (registerRoutes), and the database store  *)
(* (DbStorage) with the interleaving of its awaited queries.               *)
(*                                                                         *)
(* Encoding of JavaScript values:                                          *)
(*   - a timestamp is a number of clock ticks; TicksPerDay ticks make one  *)
(*     calendar day, so a timestamp carries more than its date;            *)
(*   - a nullable field holds Null (= << >>) or Some(v) (= << v >>);       *)
(*   - an optional argument or result (T | undefined) is Undefined         *)
(*     (= << >>) or Some(v);                                               *)
(*   - a partial object (Partial<InsertX>) is a function whose DOMAIN is   *)
(*     the set of supplied keys; object spread is Spread.                  *)
(***************************************************************************)
EXTENDS Integers, Sequences, FiniteSets, TLC

\* ---------------------------------------------------------------- bounds
\* Clock resolution: ticks per calendar day.
TicksPerDay == 2
\* Calendar days the clock can reach: 0 .. MaxDay.
MaxDay == 3
\* Total number of increaseStudyTime calls in one run.
MaxCalls == 4
\* Total number of PUT /api/study-stats requests in one run.
MaxWrites == 2

\* The last clock tick of the specifications that stay within one day.
ShortHorizon == 1
\* Tasks created in one run.
MaxTasks == 2
\* Study sessions created in one run.
MaxSessions == 2
\* Study sessions created in one run of the session specification.
MaxCreditSessions == 1
\* Total number of session updates that credit study time in one run.
MaxCredits == 2

MaxTime == (MaxDay + 1) * TicksPerDay - 1

\* ------------------------------------------------------------ JS values
Null == << >>
Undefined == << >>
Some(v) == << v >>

EmptyObject == [k \in {} |-> 0]

\* { ...a, ...b }
Spread(a, b) ==
  [k \in (DOMAIN a) \cup (DOMAIN b) |-> IF k \in DOMAIN b THEN b[k] ELSE a[k]]

\* new Date(d).setHours(0, 0, 0, 0): the midnight that starts d's calendar day.
setHoursZero(d) == (d \div TicksPerDay) * TicksPerDay

\* The calendar day of a timestamp.
DayOf(d) == d \div TicksPerDay

\* Concurrent clients of DbStorage.
MaxClients == 2
Clients == 1 .. MaxClients

\* Total number of DbStorage calls in one run.
MaxDbCalls == 3

\* Total number of increaseStudyTime calls in one run of the specification of
\* the increase-time requests.
MaxIncreaseCalls == 2

\* A client with no DbStorage call in progress.
NoCall == [op |-> "none"]

\* ----------------------------------------------------------------- state
VARIABLES
  now,                  \* the process clock (new Date())
  tasksMap,             \* MemStorage.tasksMap: id -> Task
  taskId,               \* MemStorage.taskId: the next task id
  studySessionsMap,     \* MemStorage.studySessionsMap: id -> StudySession
  sessionId,            \* MemStorage.sessionId: the next session id
  studyStatsInstance,   \* MemStorage.studyStatsInstance: StudyStats | undefined
  taskIdsCreated,       \* the ids createTask has assigned, in creation order
  sessionIdsCreated,    \* the ids createStudySession has assigned, in order
  last,                 \* the most recent request: what was asked, what was answered
  log,                  \* every increaseStudyTime call made so far, in order
  studyDays,            \* the calendar days on which increaseStudyTime was called
  writes,               \* the number of PUT /api/study-stats requests so far
  credited,             \* the session ids whose duration a PUT credited, in order
  opToday,              \* whether a request was already served on today's date
  incToday,             \* whether increaseStudyTime was called on today's date and
                        \* no write of streakDays or lastStudyDate followed it
  timerSettingsInstance, \* MemStorage.timerSettingsInstance: TimerSettings | undefined
  dbTimerSettings,      \* the rows of table timer_settings, in insertion order
  dbStudySessions,      \* the rows of table study_sessions, in insertion order
  dbStudyStats,         \* the rows of table study_stats, in insertion order
  dbCalls               \* the DbStorage calls in progress, per client

taskVars == <<tasksMap, taskId, taskIdsCreated>>
sessionVars == <<studySessionsMap, sessionId, sessionIdsCreated>>
statsVars == <<studyStatsInstance, log, studyDays, writes, credited, incToday>>
settingsVars == <<timerSettingsInstance>>
dbVars == <<dbTimerSettings, dbStudySessions, dbStudyStats, dbCalls>>
vars == <<now, taskVars, sessionVars, statsVars, last, opToday, settingsVars,
          dbVars>>

\* The StudyStats record, where one exists.
Stats == studyStatsInstance[1]

\* -------------------------------------------------------- study statistics
\* The defaults of MemStorage's constructor and of updateStudyStats.
defaultStats ==
  [id |-> 1, userId |-> Null, totalStudyTime |-> 0, dailyGoal |-> 7200,
   weeklyGoal |-> 36000, streakDays |-> 0, lastStudyDate |-> Null,
   timeByCategory |-> EmptyObject]

\* MemStorage.updateStudyStats: create from the defaults when absent, then merge.
updateStudyStats(instance, stats) ==
  IF instance = Undefined
    THEN Some(Spread(defaultStats, stats))
    ELSE Some(Spread(instance[1], stats))

\* Property names every object inherits from Object.prototype.
ObjectPrototypeKeys == {"constructor", "toString", "valueOf", "hasOwnProperty"}

\* A JavaScript value that is not a number: an inherited member of
\* Object.prototype, or the string that adding a number to it produces.
NonNumber == -1

\* timeByCategory[category] || 0: an own key's value, else the member inherited
\* from Object.prototype (truthy), else undefined, which || turns into 0.
categoryOrZero(timeByCategory, category) ==
  IF category \in DOMAIN timeByCategory THEN timeByCategory[category]
  ELSE IF category \in ObjectPrototypeKeys THEN NonNumber
  ELSE 0

\* JavaScript +: numbers add; a non-number operand makes a string concatenation.
jsPlus(a, b) == IF a = NonNumber THEN NonNumber ELSE a + b

MutEmptyStringTruthy(category) == category # Undefined

\* if (category): undefined and the empty string are falsy.
truthyCategory(category) == category # Undefined /\ category[1] # ""

MutStreakResetsToday(stats, t) ==
  LET today == setHoursZero(t)
      yesterday == today - TicksPerDay
  IN IF stats.lastStudyDate # Null
       THEN LET lastStudyDay == setHoursZero(stats.lastStudyDate[1])
            IN IF lastStudyDay = yesterday THEN stats.streakDays + 1 ELSE 1
       ELSE 1

MutStreakNeverResets(stats, t) ==
  LET today == setHoursZero(t)
      yesterday == today - TicksPerDay
  IN IF stats.lastStudyDate # Null
       THEN LET lastStudyDay == setHoursZero(stats.lastStudyDate[1])
            IN IF lastStudyDay <= yesterday
                 THEN stats.streakDays + 1 ELSE stats.streakDays
       ELSE 1

\* The streak rule of increaseStudyTime, at clock value t.
streakDaysAfter(stats, t) ==
  LET today == setHoursZero(t)
      yesterday == today - TicksPerDay
      streakDays == stats.streakDays
  IN IF stats.lastStudyDate # Null
       THEN LET lastStudyDay == setHoursZero(stats.lastStudyDate[1])
            IN IF lastStudyDay = yesterday THEN streakDays + 1
               ELSE IF lastStudyDay < yesterday THEN 1
               ELSE streakDays
       ELSE 1

\* The category ledger of increaseStudyTime.
timeByCategoryAfter(timeByCategory, seconds, category) ==
  IF truthyCategory(category)
    THEN [k \in (DOMAIN timeByCategory) \cup {category[1]} |->
            IF k = category[1]
              THEN jsPlus(categoryOrZero(timeByCategory, k), seconds)
              ELSE timeByCategory[k]]
    ELSE timeByCategory

\* MemStorage.increaseStudyTime(seconds, category) at clock value t.
increaseStudyTime(instance, seconds, category, t) ==
  LET current == IF instance = Undefined
                   THEN updateStudyStats(instance, EmptyObject)[1]
                   ELSE instance[1]
  IN Some(Spread(current,
       [totalStudyTime |-> current.totalStudyTime + seconds,
        lastStudyDate |-> Some(t),
        streakDays |-> streakDaysAfter(current, t),
        timeByCategory |->
          timeByCategoryAfter(current.timeByCategory, seconds, category)]))

\* ------------------------------------------------------- timer settings
\* The defaults of MemStorage's constructor and of updateTimerSettings.
defaultSettings ==
  [id |-> 1, userId |-> Null, defaultMinutes |-> 25, defaultSeconds |-> 0,
   alarmSound |-> "bell", volume |-> 80, autoStartBreak |-> FALSE,
   timerMode |-> "pomodoro", pomodoroMinutes |-> 25, shortBreakMinutes |-> 5,
   longBreakMinutes |-> 15, longBreakInterval |-> 4,
   autoStartPomodoro |-> FALSE, trackStopwatchTime |-> TRUE,
   stopwatchDefaultCategory |-> Some("General"), stopwatchAutoSave |-> FALSE]

MutSettingsFromDefaults(instance, settings) ==
  Some(Spread(defaultSettings, settings))

\* MemStorage.updateTimerSettings: create from the defaults when absent, then
\* merge.
updateTimerSettings(instance, settings) ==
  IF instance = Undefined
    THEN Some(Spread(defaultSettings, settings))
    ELSE Some(Spread(instance[1], settings))

\* a ?? null for a nullable field of a partial object.
orNull(object, key) == IF key \in DOMAIN object THEN object[key] ELSE Null

\* ----------------------------------------------------------------- tasks
\* A Map without its entry for id (Map.delete).
MapDelete(map, id) == [k \in (DOMAIN map) \ {id} |-> map[k]]

\* A Map with its entry for id set (Map.set).
MapSet(map, id, value) ==
  [k \in (DOMAIN map) \cup {id} |-> IF k = id THEN value ELSE map[k]]

\* Map.get: the entry, or undefined.
MapGet(map, id) == IF id \in DOMAIN map THEN Some(map[id]) ELSE Undefined

MutTaskAlwaysOpen(insertTask, id, createdAt) ==
  Spread(insertTask,
    [id |-> id, createdAt |-> createdAt, completed |-> FALSE,
     dueDate |-> orNull(insertTask, "dueDate")])

\* The Task that MemStorage.createTask builds.
newTask(insertTask, id, createdAt) ==
  Spread(insertTask,
    [id |-> id,
     createdAt |-> createdAt,
     completed |-> IF "completed" \in DOMAIN insertTask
                     THEN insertTask.completed ELSE FALSE,
     dueDate |-> orNull(insertTask, "dueDate")])

MutNextIdFillsGaps(map, counter) ==
  CHOOSE id \in 1 .. counter : id \notin DOMAIN map /\ \A j \in 1 .. id - 1 : j \in DOMAIN map

\* const id = this.taskId++ (and this.sessionId++): the id a create assigns.
nextId(map, counter) == counter

MutUpdateUpserts(map, id, data) ==
  [map |-> MapSet(map, id, IF id \in DOMAIN map THEN Spread(map[id], data) ELSE data),
   ret |-> IF id \in DOMAIN map THEN Some(Spread(map[id], data)) ELSE Undefined]

MutUpdateKeepsOld(map, id, data) ==
  IF id \notin DOMAIN map
    THEN [map |-> map, ret |-> Undefined]
    ELSE [map |-> MapSet(map, id, Spread(data, map[id])),
          ret |-> Some(Spread(data, map[id]))]

MutDeleteAlwaysTrue(map, id) ==
  [map |-> MapDelete(map, id), ret |-> TRUE]

\* MemStorage.deleteTask and MemStorage.deleteStudySession (Map.delete): the
\* map without the entry of id, and whether there was one.
deleteRecord(map, id) ==
  [map |-> MapDelete(map, id), ret |-> id \in DOMAIN map]

\* MemStorage.updateTask and MemStorage.updateStudySession: the map and the
\* result after merging data into the record of id, if there is one.
updateRecord(map, id, data) ==
  IF id \notin DOMAIN map
    THEN [map |-> map, ret |-> Undefined]
    ELSE [map |-> MapSet(map, id, Spread(map[id], data)),
          ret |-> Some(Spread(map[id], data))]

\* ---------------------------------------------------------------- queries
\* Array.from(map.values()): the entries in insertion order. Ids are assigned
\* in increasing order and Map.set keeps the position of an existing key, so
\* insertion order is the order of the ids.
RECURSIVE values(_)
values(map) ==
  IF DOMAIN map = {} THEN << >>
  ELSE LET id == CHOOSE i \in DOMAIN map : \A j \in DOMAIN map : i <= j
       IN <<map[id]>> \o values(MapDelete(map, id))

RECURSIVE MutSortOldestFirst(_, _)
MutSortOldestFirst(array, field) ==
  IF array = << >> THEN << >>
  ELSE LET x == array[Len(array)]
           rest == MutSortOldestFirst(SubSeq(array, 1, Len(array) - 1), field)
       IN SelectSeq(rest, LAMBDA r : r[field] <= x[field]) \o <<x>>
            \o SelectSeq(rest, LAMBDA r : r[field] > x[field])

\* array.sort((a, b) => new Date(b[field]).getTime() - new Date(a[field]).getTime()):
\* a stable sort, largest timestamp first.
RECURSIVE sortNewestFirst(_, _)
sortNewestFirst(array, field) ==
  IF array = << >> THEN << >>
  ELSE LET x == array[Len(array)]
           rest == sortNewestFirst(SubSeq(array, 1, Len(array) - 1), field)
       IN SelectSeq(rest, LAMBDA r : r[field] >= x[field]) \o <<x>>
            \o SelectSeq(rest, LAMBDA r : r[field] < x[field])

\* MemStorage.getTasks
getTasks(map) == sortNewestFirst(values(map), "createdAt")

\* MemStorage.getStudySessions
getStudySessions(map) == sortNewestFirst(values(map), "startTime")

MutRangeExcludesEnd(map, startDate, endDate) ==
  sortNewestFirst(
    SelectSeq(values(map),
      LAMBDA session : session.startTime >= startDate /\ session.startTime < endDate),
    "startTime")

\* MemStorage.getStudySessionsByDateRange
getStudySessionsByDateRange(map, startDate, endDate) ==
  sortNewestFirst(
    SelectSeq(values(map),
      LAMBDA session : session.startTime >= startDate /\ session.startTime <= endDate),
    "startTime")

\* -------------------------------------------------------------- sessions
\* a || b for a nullable field of a partial object: b when the key is absent,
\* null or holds the falsy value.
orElse(object, key, falsy, b) ==
  IF key \in DOMAIN object /\ object[key] # Null /\ object[key] # Some(falsy)
    THEN object[key] ELSE b

\* The StudySession that MemStorage.createStudySession builds at clock value t.
newStudySession(session, id, t) ==
  Spread(session,
    [id |-> id,
     userId |-> orNull(session, "userId"),
     startTime |-> IF "startTime" \in DOMAIN session THEN session.startTime ELSE t,
     endTime |-> orNull(session, "endTime"),
     tags |-> IF "tags" \in DOMAIN session /\ session.tags # Null
                THEN session.tags ELSE Some(<< >>),
     completed |-> "completed" \in DOMAIN session /\ session.completed,
     duration |-> orElse(session, "duration", 0, Some(0)),
     timerType |-> IF "timerType" \in DOMAIN session /\ session.timerType # ""
                     THEN session.timerType ELSE "pomodoro",
     notes |-> orNull(session, "notes")])

\* updatedSession.completed && updatedSession.duration && updatedSession.duration > 0
creditsStudyTime(updatedSession) ==
  /\ updatedSession.completed
  /\ updatedSession.duration # Null
  /\ updatedSession.duration[1] # 0
  /\ updatedSession.duration[1] > 0

MutAnyTag(updatedSession) ==
  IF updatedSession.tags # Null /\ Len(updatedSession.tags[1]) > 0
    THEN Some(updatedSession.tags[1][Len(updatedSession.tags[1])])
    ELSE Undefined

\* updatedSession.tags && updatedSession.tags.length > 0
\*   ? updatedSession.tags[0] : undefined
firstTag(updatedSession) ==
  IF updatedSession.tags # Null /\ Len(updatedSession.tags[1]) > 0
    THEN Some(updatedSession.tags[1][1])
    ELSE Undefined

\* ------------------------------------------------------------- DbStorage
\* A table is the sequence of its rows in insertion order. No row of these
\* tables is ever deleted, so the serial id of a new row is the row count + 1.

\* db.insert(table).values(insertData).returning(): the table and the new row.
dbInsert(rows, insertData) ==
  LET row == Spread(insertData, [id |-> Len(rows) + 1])
  IN [rows |-> Append(rows, row), ret |-> Some(row)]

\* db.update(table).set(set).where(eq(table.id, id)).returning()
dbUpdate(rows, id, set) ==
  LET i == CHOOSE j \in 1 .. Len(rows) : rows[j].id = id
      row == Spread(rows[i], set)
  IN [rows |-> [rows EXCEPT ![i] = row], ret |-> Some(row)]

\* db.select().from(table).where(isNull(table.userId)).limit(1): any one of the
\* rows without a user (no ORDER BY fixes which), or undefined.
dbSelectOne(rows) ==
  IF \A i \in 1 .. Len(rows) : rows[i].userId # Null
    THEN {Undefined}
    ELSE {Some(rows[i]) : i \in {j \in 1 .. Len(rows) : rows[j].userId = Null}}

\* The defaults of DbStorage.updateStudyStats at clock value t.
dbDefaultStats(t) ==
  [userId |-> Null, totalStudyTime |-> 0, dailyGoal |-> 7200,
   weeklyGoal |-> 36000, streakDays |-> 0, lastStudyDate |-> Some(t),
   timeByCategory |-> EmptyObject]

\* DbStorage.updateStudyStats after its select returned existingStats.
dbUpdateStudyStats(rows, existingStats, stats, t) ==
  IF existingStats = Undefined
    THEN dbInsert(rows, Spread(dbDefaultStats(t), stats))
    ELSE dbUpdate(rows, existingStats[1].id, stats)

\* The streak rule of DbStorage.increaseStudyTime for an existing row: without
\* a lastStudyDate the streak is left as it is.
dbStreakDaysAfter(currentStats, t) ==
  LET today == setHoursZero(t)
      yesterday == today - TicksPerDay
      streakDays == currentStats.streakDays
  IN IF currentStats.lastStudyDate # Null
       THEN LET lastStudyDay == setHoursZero(currentStats.lastStudyDate[1])
            IN IF lastStudyDay = yesterday THEN streakDays + 1
               ELSE IF lastStudyDay < yesterday THEN 1
               ELSE streakDays
       ELSE streakDays

\* DbStorage.increaseStudyTime after its select returned currentStats.
dbIncreaseStudyTime(rows, currentStats, seconds, category, t) ==
  IF currentStats = Undefined
    THEN dbInsert(rows,
           [userId |-> Null, totalStudyTime |-> seconds, dailyGoal |-> 7200,
            weeklyGoal |-> 36000, streakDays |-> 1, lastStudyDate |-> Some(t),
            timeByCategory |->
              IF truthyCategory(category)
                THEN [k \in {category[1]} |-> seconds] ELSE EmptyObject])
    ELSE dbUpdate(rows, currentStats[1].id,
           [totalStudyTime |-> currentStats[1].totalStudyTime + seconds,
            lastStudyDate |-> Some(t),
            streakDays |-> dbStreakDaysAfter(currentStats[1], t),
            timeByCategory |->
              timeByCategoryAfter(currentStats[1].timeByCategory, seconds,
                                  category)])

\* The defaults of DbStorage.updateTimerSettings.
dbDefaultSettings ==
  [userId |-> Null, defaultMinutes |-> 25, defaultSeconds |-> 0,
   alarmSound |-> "bell", volume |-> 80, autoStartBreak |-> FALSE,
   timerMode |-> "pomodoro", pomodoroMinutes |-> 25, shortBreakMinutes |-> 5,
   longBreakMinutes |-> 15, longBreakInterval |-> 4,
   autoStartPomodoro |-> FALSE, trackStopwatchTime |-> TRUE,
   stopwatchDefaultCategory |-> Some("General"), stopwatchAutoSave |-> FALSE]

\* The column defaults of table timer_settings for what an insert leaves out.
settingsColumnDefaults ==
  [backgroundImage |-> Null, useCustomBackground |-> FALSE]

\* DbStorage.updateTimerSettings after its select returned existingSettings.
dbUpdateTimerSettings(rows, existingSettings, settings) ==
  IF existingSettings = Undefined
    THEN dbInsert(rows,
           Spread(settingsColumnDefaults, Spread(dbDefaultSettings, settings)))
    ELSE dbUpdate(rows, existingSettings[1].id, settings)

\* The column defaults of table study_sessions at clock value t, for what an
\* insert leaves out: startTime defaultNow(), duration default(0), completed
\* default(false), NULL for the nullable columns without default.
sessionColumnDefaults(t) ==
  [userId |-> Null, startTime |-> t, endTime |-> Null, duration |-> Some(0),
   tags |-> Null, notes |-> Null, completed |-> FALSE]

\* DbStorage.createStudySession at clock value t.
dbCreateStudySession(rows, session, t) ==
  dbInsert(rows, Spread(sessionColumnDefaults(t), session))

\* ------------------------------------------------------------- requests
\* parseInt(req.params.id) of a path segment that is no number.
NaN == << >>
isNaN(id) == id = NaN

\* The routes of registerRoutes, in the order of registration.
Routes ==
  << [method |-> "GET", path |-> <<"api", "tasks">>],
     [method |-> "POST", path |-> <<"api", "tasks">>],
     [method |-> "PUT", path |-> <<"api", "tasks", ":id">>],
     [method |-> "DELETE", path |-> <<"api", "tasks", ":id">>],
     [method |-> "GET", path |-> <<"api", "timer-settings">>],
     [method |-> "PUT", path |-> <<"api", "timer-settings">>],
     [method |-> "DELETE", path |-> <<"api", "tasks", "completed">>],
     [method |-> "GET", path |-> <<"api", "study-sessions">>],
     [method |-> "GET", path |-> <<"api", "study-sessions", ":id">>],
     [method |-> "POST", path |-> <<"api", "study-sessions">>],
     [method |-> "PUT", path |-> <<"api", "study-sessions", ":id">>],
     [method |-> "DELETE", path |-> <<"api", "study-sessions", ":id">>],
     [method |-> "GET", path |-> <<"api", "study-sessions", "date-range">>],
     [method |-> "GET", path |-> <<"api", "study-stats">>],
     [method |-> "PUT", path |-> <<"api", "study-stats">>],
     [method |-> "POST", path |-> <<"api", "study-stats", "increase-time">>] >>

\* A route pattern matches a path when they have the same number of segments
\* and every segment is equal or the pattern's is the parameter :id.
matches(pattern, path) ==
  /\ Len(pattern) = Len(path)
  /\ \A i \in 1 .. Len(pattern) : pattern[i] = ":id" \/ pattern[i] = path[i]

\* Express dispatch: the index of the first registered route of the method
\* whose pattern matches the path.
firstMatch(method, path) ==
  LET matching == {i \in 1 .. Len(Routes) :
                     Routes[i].method = method /\ matches(Routes[i].path, path)}
  IN CHOOSE i \in matching : \A j \in matching : i <= j

\* The characters of the path segments and query strings the requests use.
Characters ==
  ("1" :> <<"1">>) @@ ("2" :> <<"2">>) @@ ("3" :> <<"3">>) @@ ("4" :> <<"4">>)
  @@ ("1abc" :> <<"1", "a", "b", "c">>)
  @@ ("completed" :> <<"c", "o", "m", "p", "l", "e", "t", "e", "d">>)
  @@ ("date-range" :> <<"d", "a", "t", "e", "-", "r", "a", "n", "g", "e">>)

\* The value of a decimal digit.
Digits ==
  ("0" :> 0) @@ ("1" :> 1) @@ ("2" :> 2) @@ ("3" :> 3) @@ ("4" :> 4)
  @@ ("5" :> 5) @@ ("6" :> 6) @@ ("7" :> 7) @@ ("8" :> 8) @@ ("9" :> 9)

\* The number that the leading decimal digits of chars denote, after sofar.
RECURSIVE digitsValue(_, _)
digitsValue(chars, sofar) ==
  IF chars = << >> \/ Head(chars) \notin DOMAIN Digits THEN sofar
  ELSE digitsValue(Tail(chars), sofar * 10 + Digits[Head(chars)])

\* parseInt(req.params.id) of an unsigned segment: the number its leading
\* decimal digits denote, whatever follows them, and NaN when it starts with
\* no digit.
parseInt(segment) ==
  LET chars == Characters[segment]
  IN IF chars = << >> \/ Head(chars) \notin DOMAIN Digits
       THEN NaN ELSE Some(digitsValue(chars, 0))

\* What a handler was asked and what it answered: the route, the response
\* status, the parsed :id, the validated body, the storage.increaseStudyTime
\* calls it made and the record it sent back.
Request(op, status, id, arg, calls, ret) ==
  [op |-> op, status |-> status, id |-> id, arg |-> arg, calls |-> calls,
   ret |-> ret]

NoRequest == Request("none", 0, Undefined, EmptyObject, << >>, Undefined)

\* One call of storage.increaseStudyTime, as the handlers make it.
Call(seconds, category) == [seconds |-> seconds, category |-> category]

\* A write of streakDays or lastStudyDate from outside the aggregator.
SuppliesStreak(stats) ==
  "streakDays" \in DOMAIN stats \/ "lastStudyDate" \in DOMAIN stats

\* The clock advances.
Tick(horizon) ==
  /\ now < horizon
  /\ now' = now + 1
  /\ opToday' = (opToday /\ DayOf(now + 1) = DayOf(now))
  /\ incToday' = (incToday /\ DayOf(now + 1) = DayOf(now))
  /\ UNCHANGED <<taskVars, sessionVars, studyStatsInstance, log, studyDays,
                 writes, credited, last, settingsVars, dbVars>>

\* A value of a JSON request body with its typeof; a string is carried by the
\* number it reads as, null by 0.
Number(n) == [typeof |-> "number", value |-> n]
String(n) == [typeof |-> "string", value |-> n]
JsonNull == [typeof |-> "object", value |-> 0]
JsonUndefined == [typeof |-> "undefined", value |-> 0]

MutTypeofIgnored(json) == TRUE

\* typeof seconds === 'number'
typeofNumber(json) == json.typeof = "number"

\* The handler of POST /api/study-stats/increase-time, with seconds and
\* category taken from req.body; arg is what the request is remembered by.
IncreaseTime(seconds, category, arg) ==
  IF ~typeofNumber(seconds) \/ seconds.value <= 0
    THEN /\ last' = Request("postIncreaseTime", 400, Undefined, arg, << >>,
                            Undefined)
         /\ opToday' = TRUE
         /\ UNCHANGED <<now, taskVars, sessionVars, statsVars, settingsVars,
                        dbVars>>
    ELSE /\ Len(log) < MaxCalls
         /\ studyStatsInstance' =
              increaseStudyTime(studyStatsInstance, seconds.value, category, now)
         /\ last' = Request("postIncreaseTime", 200, Undefined, arg,
                            <<Call(seconds.value, category)>>,
                            studyStatsInstance')
         /\ log' = Append(log, Call(seconds.value, category))
         /\ studyDays' = studyDays \cup {DayOf(now)}
         /\ opToday' = TRUE
         /\ incToday' = TRUE
         /\ UNCHANGED <<now, taskVars, sessionVars, writes, credited,
                        settingsVars, dbVars>>

\* POST /api/study-stats/increase-time with a number as seconds.
PostIncreaseTime(seconds, category) ==
  IncreaseTime(Number(seconds), category, Call(seconds, category))

\* POST /api/study-stats/increase-time with the parsed JSON body as sent:
\* const { seconds, category } = req.body.
PostApiIncreaseTime(body) ==
  IncreaseTime(IF "seconds" \in DOMAIN body THEN body.seconds ELSE JsonUndefined,
               IF "category" \in DOMAIN body THEN Some(body.category)
               ELSE Undefined,
               body)

\* PUT /api/study-stats
PutStudyStats(stats) ==
  /\ writes < MaxWrites
  /\ studyStatsInstance' = updateStudyStats(studyStatsInstance, stats)
  /\ last' = Request("putStudyStats", 200, Undefined, stats, << >>,
                     studyStatsInstance')
  /\ writes' = writes + 1
  /\ opToday' = TRUE
  /\ incToday' = (incToday /\ ~SuppliesStreak(stats))
  /\ UNCHANGED <<now, taskVars, sessionVars, log, studyDays, credited,
                 settingsVars, dbVars>>

\* POST /api/tasks
PostTask(insertTask) ==
  /\ taskId <= MaxTasks
  /\ LET id == nextId(tasksMap, taskId)
         task == newTask(insertTask, id, now)
     IN /\ tasksMap' = MapSet(tasksMap, id, task)
        /\ taskId' = taskId + 1
        /\ taskIdsCreated' = Append(taskIdsCreated, id)
        /\ last' = Request("postTask", 201, Some(id), insertTask, << >>,
                           Some(task))
  /\ opToday' = TRUE
  /\ UNCHANGED <<now, sessionVars, statsVars, settingsVars, dbVars>>

\* The handler of PUT /api/tasks/:id, with id = parseInt(req.params.id) and
\* updateData the validated body; arg is what the request is remembered by.
PutTaskById(id, updateData, arg) ==
  /\ IF isNaN(id)
       THEN /\ last' = Request("putTask", 400, id, arg, << >>, Undefined)
            /\ UNCHANGED tasksMap
       ELSE LET updated == updateRecord(tasksMap, id[1], updateData)
            IN /\ tasksMap' = updated.map
               /\ last' = Request("putTask",
                                  IF updated.ret = Undefined THEN 404 ELSE 200,
                                  id, arg, << >>, updated.ret)
  /\ opToday' = TRUE
  /\ UNCHANGED <<now, taskId, taskIdsCreated, sessionVars, statsVars,
                 settingsVars, dbVars>>

\* PUT /api/tasks/:id
PutTask(id, updateData) == PutTaskById(id, updateData, updateData)

\* A PUT request for /api/tasks/<segment>.
PutApiTasks(segment, updateData) ==
  PutTaskById(parseInt(segment), updateData,
              [id |-> segment, body |-> updateData])

\* The handler of DELETE /api/tasks/:id, with id = parseInt(req.params.id);
\* params is what the request is remembered by.
DeleteTaskById(id, params) ==
  /\ IF isNaN(id)
       THEN /\ last' = Request("deleteTask", 400, id, params, << >>, Undefined)
            /\ UNCHANGED tasksMap
       ELSE LET success == deleteRecord(tasksMap, id[1])
            IN /\ tasksMap' = success.map
               /\ last' = Request("deleteTask",
                                  IF success.ret THEN 204 ELSE 404,
                                  id, params, << >>, Undefined)
  /\ opToday' = TRUE
  /\ UNCHANGED <<now, taskId, taskIdsCreated, sessionVars, statsVars,
                 settingsVars, dbVars>>

\* DELETE /api/tasks/:id
DeleteTask(id) == DeleteTaskById(id, EmptyObject)

\* tasks.filter(task => task.completed).map(task => storage.deleteTask(task.id)):
\* the map after deleting, one by one, the completed tasks of a list.
RECURSIVE deleteCompleted(_, _)
deleteCompleted(map, tasks) ==
  IF tasks = << >> THEN map
  ELSE deleteCompleted(
         IF Head(tasks).completed
           THEN deleteRecord(map, Head(tasks).id).map ELSE map,
         Tail(tasks))

\* The handler of DELETE /api/tasks/completed.
ClearCompletedTasks ==
  /\ tasksMap' = deleteCompleted(tasksMap, getTasks(tasksMap))
  /\ last' = Request("clearCompletedTasks", 204, Undefined, EmptyObject, << >>,
                     Undefined)
  /\ opToday' = TRUE
  /\ UNCHANGED <<now, taskId, taskIdsCreated, sessionVars, statsVars,
                 settingsVars, dbVars>>

\* A DELETE request for /api/tasks/<segment>: the first registered route that
\* matches handles it.
DeleteApiTasks(segment) ==
  LET route == Routes[firstMatch("DELETE", <<"api", "tasks", segment>>)]
  IN IF route.path = <<"api", "tasks", ":id">>
       THEN DeleteTaskById(parseInt(segment), [id |-> segment])
       ELSE ClearCompletedTasks

MutCreateCredits(session, limit) ==
  /\ sessionId <= limit
  /\ Len(log) < MaxCalls
  /\ LET id == nextId(studySessionsMap, sessionId)
         studySession == newStudySession(session, id, now)
         call == Call(IF studySession.completed THEN studySession.duration[1]
                      ELSE 0, firstTag(studySession))
     IN /\ studySessionsMap' = MapSet(studySessionsMap, id, studySession)
        /\ sessionId' = sessionId + 1
        /\ sessionIdsCreated' = Append(sessionIdsCreated, id)
        /\ studyStatsInstance' =
             increaseStudyTime(studyStatsInstance, call.seconds, call.category,
                               now)
        /\ log' = Append(log, call)
        /\ last' = Request("postStudySession", 201, Some(id), session, << >>,
                           Some(studySession))
  /\ opToday' = TRUE
  /\ UNCHANGED <<now, taskVars, studyDays, writes, credited, incToday,
                 settingsVars, dbVars>>

\* POST /api/study-sessions
PostStudySession(session, limit) ==
  /\ sessionId <= limit
  /\ LET id == nextId(studySessionsMap, sessionId)
         studySession == newStudySession(session, id, now)
     IN /\ studySessionsMap' = MapSet(studySessionsMap, id, studySession)
        /\ sessionId' = sessionId + 1
        /\ sessionIdsCreated' = Append(sessionIdsCreated, id)
        /\ last' = Request("postStudySession", 201, Some(id), session, << >>,
                           Some(studySession))
  /\ opToday' = TRUE
  /\ UNCHANGED <<now, taskVars, statsVars, settingsVars, dbVars>>

\* The handler of PUT /api/study-sessions/:id, with id = parseInt(req.params.id)
\* and sessionData the validated body; arg is what the request is remembered
\* by.
PutStudySessionById(id, sessionData, arg) ==
  /\ IF isNaN(id)
       THEN /\ last' = Request("putStudySession", 400, id, arg, << >>,
                               Undefined)
            /\ UNCHANGED <<studySessionsMap, statsVars>>
       ELSE LET updated == updateRecord(studySessionsMap, id[1], sessionData)
            IN /\ studySessionsMap' = updated.map
               /\ IF updated.ret = Undefined
                    THEN /\ last' = Request("putStudySession", 404, id,
                                            arg, << >>, Undefined)
                         /\ UNCHANGED statsVars
                    ELSE IF creditsStudyTime(updated.ret[1])
                      THEN LET call == Call(updated.ret[1].duration[1],
                                            firstTag(updated.ret[1]))
                           IN /\ Len(log) < MaxCalls
                              /\ Len(credited) < MaxCredits
                              /\ studyStatsInstance' =
                                   increaseStudyTime(studyStatsInstance,
                                     call.seconds, call.category, now)
                              /\ log' = Append(log, call)
                              /\ studyDays' = studyDays \cup {DayOf(now)}
                              /\ incToday' = TRUE
                              /\ credited' = Append(credited, id[1])
                              /\ last' = Request("putStudySession", 200, id,
                                                 arg, <<call>>,
                                                 updated.ret)
                              /\ UNCHANGED writes
                      ELSE /\ last' = Request("putStudySession", 200, id,
                                              arg, << >>, updated.ret)
                           /\ UNCHANGED statsVars
  /\ opToday' = TRUE
  /\ UNCHANGED <<now, sessionId, sessionIdsCreated, taskVars, settingsVars,
                 dbVars>>

\* PUT /api/study-sessions/:id
PutStudySession(id, sessionData) ==
  PutStudySessionById(id, sessionData, sessionData)

\* A PUT request for /api/study-sessions/<segment>.
PutApiStudySessions(segment, sessionData) ==
  PutStudySessionById(parseInt(segment), sessionData,
                      [id |-> segment, body |-> sessionData])

\* PUT /api/study-sessions/:id over a storage whose increaseStudyTime rejects
\* (the backend fails after updateStudySession has returned): the catch block
\* answers 500.
PutStudySessionFails(id, sessionData) ==
  /\ ~isNaN(id)
  /\ LET updated == updateRecord(studySessionsMap, id[1], sessionData)
     IN /\ updated.ret # Undefined
        /\ creditsStudyTime(updated.ret[1])
        /\ studySessionsMap' = updated.map
        /\ last' = Request("putStudySession", 500, id, sessionData,
                           <<Call(updated.ret[1].duration[1],
                                  firstTag(updated.ret[1]))>>,
                           Undefined)
  /\ opToday' = TRUE
  /\ UNCHANGED <<now, sessionId, sessionIdsCreated, taskVars, statsVars,
                 settingsVars, dbVars>>

\* The handler of DELETE /api/study-sessions/:id, with id =
\* parseInt(req.params.id); params is what the request is remembered by.
DeleteStudySessionById(id, params) ==
  /\ IF isNaN(id)
       THEN /\ last' = Request("deleteStudySession", 400, id, params,
                               << >>, Undefined)
            /\ UNCHANGED studySessionsMap
       ELSE LET success == deleteRecord(studySessionsMap, id[1])
            IN /\ studySessionsMap' = success.map
               /\ last' = Request("deleteStudySession",
                                  IF success.ret THEN 204 ELSE 404,
                                  id, params, << >>, Undefined)
  /\ opToday' = TRUE
  /\ UNCHANGED <<now, sessionId, sessionIdsCreated, taskVars, statsVars,
                 settingsVars, dbVars>>

\* DELETE /api/study-sessions/:id
DeleteStudySession(id) == DeleteStudySessionById(id, EmptyObject)

\* A DELETE request for /api/study-sessions/<segment>.
DeleteApiStudySessions(segment) ==
  DeleteStudySessionById(parseInt(segment), [id |-> segment])

\* GET /api/timer-settings
GetTimerSettings ==
  /\ last' = Request("getTimerSettings", 200, Undefined, EmptyObject, << >>,
                     timerSettingsInstance)
  /\ opToday' = TRUE
  /\ UNCHANGED <<now, taskVars, sessionVars, statsVars, settingsVars, dbVars>>

\* PUT /api/timer-settings
PutTimerSettings(settings) ==
  /\ timerSettingsInstance' =
       updateTimerSettings(timerSettingsInstance, settings)
  /\ last' = Request("putTimerSettings", 200, Undefined, settings, << >>,
                     timerSettingsInstance')
  /\ opToday' = TRUE
  /\ UNCHANGED <<now, taskVars, sessionVars, statsVars, dbVars>>

\* GET /api/study-stats
GetStudyStats ==
  /\ last' = Request("getStudyStats", 200, Undefined, EmptyObject, << >>,
                     studyStatsInstance)
  /\ opToday' = TRUE
  /\ UNCHANGED <<now, taskVars, sessionVars, statsVars, settingsVars, dbVars>>

\* GET /api/tasks
GetTasks ==
  /\ last' = Request("getTasks", 200, Undefined, EmptyObject, << >>,
                     Some(getTasks(tasksMap)))
  /\ opToday' = TRUE
  /\ UNCHANGED <<now, taskVars, sessionVars, statsVars, settingsVars, dbVars>>

\* GET /api/study-sessions
GetStudySessions ==
  /\ last' = Request("getStudySessions", 200, Undefined, EmptyObject, << >>,
                     Some(getStudySessions(studySessionsMap)))
  /\ opToday' = TRUE
  /\ UNCHANGED <<now, taskVars, sessionVars, statsVars, settingsVars, dbVars>>

\* storage.getStudySessionsByDateRange(startDate, endDate)
GetStudySessionsByDateRange(startDate, endDate) ==
  /\ last' = Request("getStudySessionsByDateRange", 200, Undefined,
                     [startDate |-> startDate, endDate |-> endDate], << >>,
                     Some(getStudySessionsByDateRange(studySessionsMap,
                                                      startDate, endDate)))
  /\ opToday' = TRUE
  /\ UNCHANGED <<now, taskVars, sessionVars, statsVars, settingsVars, dbVars>>

\* MemStorage.getStudySession
getStudySession(map, id) == MapGet(map, id)

\* The handler of GET /api/study-sessions/:id, with id = parseInt(req.params.id);
\* params is what the request is remembered by.
GetStudySessionById(id, params) ==
  /\ IF isNaN(id)
       THEN last' = Request("getStudySession", 400, id, params, << >>, Undefined)
       ELSE LET session == getStudySession(studySessionsMap, id[1])
            IN last' = Request("getStudySession",
                               IF session = Undefined THEN 404 ELSE 200,
                               id, params, << >>, session)
  /\ opToday' = TRUE
  /\ UNCHANGED <<now, taskVars, sessionVars, statsVars, settingsVars, dbVars>>

\* The date strings the requests use and the clock value each denotes.
DateStrings == ("1970-01-01" :> 0) @@ ("1970-01-02" :> TicksPerDay)

\* new Date(string).getTime(): NaN for a string that is no date.
newDate(string) ==
  IF string \in DOMAIN DateStrings THEN Some(DateStrings[string]) ELSE NaN

\* !value for a query parameter: absent or the empty string.
missing(query, key) == key \notin DOMAIN query \/ query[key] = ""

\* The handler of GET /api/study-sessions/date-range.
GetDateRange(query) ==
  IF \/ missing(query, "startDate") \/ missing(query, "endDate")
     \/ isNaN(newDate(query.startDate)) \/ isNaN(newDate(query.endDate))
    THEN /\ last' = Request("getStudySessionsByDateRange", 400, Undefined,
                            query, << >>, Undefined)
         /\ opToday' = TRUE
         /\ UNCHANGED <<now, taskVars, sessionVars, statsVars, settingsVars,
                        dbVars>>
    ELSE GetStudySessionsByDateRange(newDate(query.startDate)[1],
                                     newDate(query.endDate)[1])

\* A GET request for /api/study-sessions/<segment>?<query>: the first
\* registered route that matches handles it.
GetApiStudySessions(segment, query) ==
  LET route == Routes[firstMatch("GET", <<"api", "study-sessions", segment>>)]
  IN IF route.path = <<"api", "study-sessions", ":id">>
       THEN GetStudySessionById(parseInt(segment), [id |-> segment])
       ELSE GetDateRange(query)

\* ------------------------------------------- MemStorage beside DbStorage
\* The same storage call made on a MemStorage and on a DbStorage at the same
\* clock value, each call completing before the next one starts; the answer
\* remembered is the pair of the two results.
Both(mem, db) == Some([mem |-> mem, db |-> db])

\* storage.updateStudyStats(stats) on both
BothUpdateStudyStats(stats) ==
  /\ writes < MaxWrites
  /\ \E existingStats \in dbSelectOne(dbStudyStats) :
       LET mem == updateStudyStats(studyStatsInstance, stats)
           db == dbUpdateStudyStats(dbStudyStats, existingStats, stats, now)
       IN /\ studyStatsInstance' = mem
          /\ dbStudyStats' = db.rows
          /\ last' = Request("updateStudyStats", 200, Undefined, stats, << >>,
                             Both(mem, db.ret))
  /\ writes' = writes + 1
  /\ opToday' = TRUE
  /\ incToday' = (incToday /\ ~SuppliesStreak(stats))
  /\ UNCHANGED <<now, taskVars, sessionVars, log, studyDays, credited,
                 settingsVars, dbTimerSettings, dbStudySessions, dbCalls>>

\* storage.increaseStudyTime(seconds, category) on both
BothIncreaseStudyTime(seconds, category) ==
  /\ Len(log) < MaxCalls
  /\ \E currentStats \in dbSelectOne(dbStudyStats) :
       LET mem == increaseStudyTime(studyStatsInstance, seconds, category, now)
           db == dbIncreaseStudyTime(dbStudyStats, currentStats, seconds,
                                     category, now)
       IN /\ studyStatsInstance' = mem
          /\ dbStudyStats' = db.rows
          /\ last' = Request("increaseStudyTime", 200, Undefined,
                             Call(seconds, category),
                             <<Call(seconds, category)>>, Both(mem, db.ret))
  /\ log' = Append(log, Call(seconds, category))
  /\ studyDays' = studyDays \cup {DayOf(now)}
  /\ opToday' = TRUE
  /\ incToday' = TRUE
  /\ UNCHANGED <<now, taskVars, sessionVars, writes, credited, settingsVars,
                 dbTimerSettings, dbStudySessions, dbCalls>>

\* storage.getStudyStats() on both
BothGetStudyStats ==
  /\ \E stats \in dbSelectOne(dbStudyStats) :
       last' = Request("getStudyStats", 200, Undefined, EmptyObject, << >>,
                       Both(studyStatsInstance, stats))
  /\ opToday' = TRUE
  /\ UNCHANGED <<now, taskVars, sessionVars, statsVars, settingsVars, dbVars>>

\* storage.createStudySession(session) on both
BothCreateStudySession(session) ==
  /\ sessionId <= MaxCreditSessions
  /\ LET id == nextId(studySessionsMap, sessionId)
         mem == newStudySession(session, id, now)
         db == dbCreateStudySession(dbStudySessions, session, now)
     IN /\ studySessionsMap' = MapSet(studySessionsMap, id, mem)
        /\ sessionId' = sessionId + 1
        /\ sessionIdsCreated' = Append(sessionIdsCreated, id)
        /\ dbStudySessions' = db.rows
        /\ last' = Request("createStudySession", 200, Some(id), session, << >>,
                           Both(Some(mem), db.ret))
  /\ opToday' = TRUE
  /\ UNCHANGED <<now, taskVars, statsVars, settingsVars, dbTimerSettings,
                 dbStudyStats, dbCalls>>

\* ------------------------------------------------ DbStorage, concurrently
\* A DbStorage method awaits its select and then its insert or update; calls
\* of several clients interleave at these awaits. A call's first step is the
\* database executing its select, its second the insert or update computed
\* from what the select returned.

\* DbStorage.increaseStudyTime: const currentStats = await this.getStudyStats()
IncreaseStudyTimeSelects(client, seconds, category) ==
  /\ dbCalls[client] = NoCall
  /\ Len(log) + writes < MaxDbCalls
  /\ \E currentStats \in dbSelectOne(dbStudyStats) :
       dbCalls' = [dbCalls EXCEPT ![client] =
                     [op |-> "increaseStudyTime", seconds |-> seconds,
                      category |-> category, currentStats |-> currentStats]]
  /\ log' = Append(log, Call(seconds, category))
  /\ UNCHANGED <<now, taskVars, sessionVars, studyStatsInstance, studyDays,
                 writes, credited, incToday, last, opToday, settingsVars,
                 dbTimerSettings, dbStudySessions, dbStudyStats>>

\* DbStorage.increaseStudyTime: the insert or update, and the return
IncreaseStudyTimeWrites(client) ==
  /\ dbCalls[client].op = "increaseStudyTime"
  /\ LET call == dbCalls[client]
         db == dbIncreaseStudyTime(dbStudyStats, call.currentStats,
                                   call.seconds, call.category, now)
     IN /\ dbStudyStats' = db.rows
        /\ last' = Request("dbIncreaseStudyTime", 200, Some(client),
                           Call(call.seconds, call.category), << >>, db.ret)
  /\ dbCalls' = [dbCalls EXCEPT ![client] = NoCall]
  /\ UNCHANGED <<now, taskVars, sessionVars, statsVars, opToday, settingsVars,
                 dbTimerSettings, dbStudySessions>>

\* DbStorage.updateStudyStats: const existingStats = await this.getStudyStats()
UpdateStudyStatsSelects(client, stats) ==
  /\ dbCalls[client] = NoCall
  /\ Len(log) + writes < MaxDbCalls
  /\ \E existingStats \in dbSelectOne(dbStudyStats) :
       dbCalls' = [dbCalls EXCEPT ![client] =
                     [op |-> "updateStudyStats", stats |-> stats,
                      existingStats |-> existingStats]]
  /\ writes' = writes + 1
  /\ UNCHANGED <<now, taskVars, sessionVars, studyStatsInstance, log,
                 studyDays, credited, incToday, last, opToday, settingsVars,
                 dbTimerSettings, dbStudySessions, dbStudyStats>>

\* DbStorage.updateStudyStats: the insert or update, and the return
UpdateStudyStatsWrites(client) ==
  /\ dbCalls[client].op = "updateStudyStats"
  /\ LET call == dbCalls[client]
         db == dbUpdateStudyStats(dbStudyStats, call.existingStats, call.stats,
                                  now)
     IN /\ dbStudyStats' = db.rows
        /\ last' = Request("dbUpdateStudyStats", 200, Some(client), call.stats,
                           << >>, db.ret)
  /\ dbCalls' = [dbCalls EXCEPT ![client] = NoCall]
  /\ UNCHANGED <<now, taskVars, sessionVars, statsVars, opToday, settingsVars,
                 dbTimerSettings, dbStudySessions>>

\* DbStorage.updateTimerSettings: const existingSettings = await
\* this.getTimerSettings()
UpdateTimerSettingsSelects(client, settings) ==
  /\ dbCalls[client] = NoCall
  /\ Len(log) + writes < MaxDbCalls
  /\ \E existingSettings \in dbSelectOne(dbTimerSettings) :
       dbCalls' = [dbCalls EXCEPT ![client] =
                     [op |-> "updateTimerSettings", settings |-> settings,
                      existingSettings |-> existingSettings]]
  /\ writes' = writes + 1
  /\ UNCHANGED <<now, taskVars, sessionVars, studyStatsInstance, log,
                 studyDays, credited, incToday, last, opToday, settingsVars,
                 dbTimerSettings, dbStudySessions, dbStudyStats>>

\* DbStorage.updateTimerSettings: the insert or update, and the return
UpdateTimerSettingsWrites(client) ==
  /\ dbCalls[client].op = "updateTimerSettings"
  /\ LET call == dbCalls[client]
         db == dbUpdateTimerSettings(dbTimerSettings, call.existingSettings,
                                     call.settings)
     IN /\ dbTimerSettings' = db.rows
        /\ last' = Request("dbUpdateTimerSettings", 200, Some(client),
                           call.settings, << >>, db.ret)
  /\ dbCalls' = [dbCalls EXCEPT ![client] = NoCall]
  /\ UNCHANGED <<now, taskVars, sessionVars, statsVars, opToday, settingsVars,
                 dbStudySessions, dbStudyStats>>

\* ------------------------------------------------------- specifications
Init ==
  /\ now = 0
  /\ tasksMap = EmptyObject
  /\ taskId = 1
  /\ studySessionsMap = EmptyObject
  /\ sessionId = 1
  /\ studyStatsInstance = Some(defaultStats)
  /\ taskIdsCreated = << >>
  /\ sessionIdsCreated = << >>
  /\ last = NoRequest
  /\ log = << >>
  /\ studyDays = {}
  /\ writes = 0
  /\ credited = << >>
  /\ opToday = FALSE
  /\ incToday = FALSE
  /\ timerSettingsInstance = Some(defaultSettings)
  /\ dbTimerSettings = << >>
  /\ dbStudySessions = << >>
  /\ dbStudyStats = << >>
  /\ dbCalls = [client \in Clients |-> NoCall]

\* Inputs of the streak specification.
StreakSeconds == {0, 100}
StreakCategories == {Some("Math")}
StreakStatsUpdates ==
  { [dailyGoal |-> 3600],
    [streakDays |-> 0],
    [lastStudyDate |-> Some(now)],
    [lastStudyDate |-> Null] }

NextStreak ==
  \/ \E stats \in StreakStatsUpdates : PutStudyStats(stats)
  \/ \E seconds \in StreakSeconds, category \in StreakCategories :
       PostIncreaseTime(seconds, category)
  \/ Tick(MaxTime)

SpecStreak == Init /\ [][NextStreak]_vars

\* Inputs of the ledger specification: the (seconds, category) pairs the
\* handlers pass to increaseStudyTime.
LedgerCalls ==
  { Call(50, Some("Math")), Call(30, Some("Math")), Call(20, Some("Physics")),
    Call(20, Undefined), Call(30, Some("")), Call(50, Some("constructor")) }

\* The non-empty category names among them.
CategoryNames == {"Math", "Physics", "constructor"}

NextLedger ==
  \/ Tick(ShortHorizon)
  \/ \E call \in LedgerCalls : PostIncreaseTime(call.seconds, call.category)

SpecLedger == Init /\ [][NextLedger]_vars

\* Inputs of the task and session specifications.
TaskInserts ==
  { [text |-> "Buy milk"],
    [text |-> "Read", completed |-> TRUE],
    [text |-> "Run", completed |-> FALSE, dueDate |-> Some(1)] }
TaskUpdates == { [completed |-> TRUE], [text |-> "Buy tea", dueDate |-> Null] }
TaskIdParams == {NaN} \cup {Some(id) : id \in 1 .. MaxTasks + 1}

SessionInserts == { [timerType |-> "pomodoro"] }
SessionUpdates ==
  { [completed |-> TRUE, duration |-> Some(1800)],
    [tags |-> Some(<<"Math", "Review">>)],
    [tags |-> Null],
    [notes |-> Some("revise")] }
SessionIdParams(limit) == {NaN} \cup {Some(id) : id \in 1 .. limit + 1}

NextTasks ==
  \/ Tick(ShortHorizon)
  \/ \E insertTask \in TaskInserts : PostTask(insertTask)
  \/ \E id \in TaskIdParams, updateData \in TaskUpdates : PutTask(id, updateData)
  \/ \E id \in TaskIdParams : DeleteTask(id)

SpecTasks == Init /\ [][NextTasks]_vars

NextSessions ==
  \/ \E session \in SessionInserts : PostStudySession(session, MaxCreditSessions)
  \/ \E id \in SessionIdParams(MaxCreditSessions), sessionData \in SessionUpdates :
       PutStudySession(id, sessionData)
  \/ \E id \in SessionIdParams(MaxCreditSessions) : DeleteStudySession(id)

SpecSessions == Init /\ [][NextSessions]_vars

\* Inputs of the store specification: tasks and sessions side by side.
StoreTaskInserts == { [text |-> "Buy milk"] }
StoreTaskUpdates == { [completed |-> TRUE] }
StoreSessionUpdates == { [notes |-> Some("revise")] }

NextStore ==
  \/ \E insertTask \in StoreTaskInserts : PostTask(insertTask)
  \/ \E id \in TaskIdParams, updateData \in StoreTaskUpdates :
       PutTask(id, updateData)
  \/ \E id \in TaskIdParams : DeleteTask(id)
  \/ \E session \in SessionInserts : PostStudySession(session, MaxSessions)
  \/ \E id \in SessionIdParams(MaxSessions), sessionData \in StoreSessionUpdates :
       PutStudySession(id, sessionData)
  \/ \E id \in SessionIdParams(MaxSessions) : DeleteStudySession(id)

SpecStore == Init /\ [][NextStore]_vars

\* Inputs of the query specification: the timestamps given as startTime and as
\* bounds of a date range.
QueryTimes == {0, 1, 2}
QueryIdParams == {Some(id) : id \in 1 .. MaxSessions}
QuerySessionUpdates == { [startTime |-> t] : t \in QueryTimes }

NextQueries ==
  \/ Tick(ShortHorizon)
  \/ \E insertTask \in StoreTaskInserts : PostTask(insertTask)
  \/ GetTasks
  \/ \E session \in SessionInserts : PostStudySession(session, MaxSessions)
  \/ \E id \in QueryIdParams, sessionData \in QuerySessionUpdates :
       PutStudySession(id, sessionData)
  \/ \E id \in QueryIdParams : DeleteStudySession(id)
  \/ GetStudySessions
  \/ \E startDate, endDate \in QueryTimes :
       GetStudySessionsByDateRange(startDate, endDate)

SpecQueries == Init /\ [][NextQueries]_vars

\* Inputs of the singleton specification.
SettingsUpdates ==
  { [volume |-> 50],
    [alarmSound |-> "chime", autoStartBreak |-> TRUE],
    [stopwatchDefaultCategory |-> Null, backgroundImage |-> Some("night.png")] }
SingletonStatsUpdates ==
  { [dailyGoal |-> 3600], [weeklyGoal |-> 18000, userId |-> Some(1)] }
SingletonCalls == { Call(100, Some("Math")) }

NextSingletons ==
  \/ \E settings \in SettingsUpdates : PutTimerSettings(settings)
  \/ GetTimerSettings
  \/ \E stats \in SingletonStatsUpdates : PutStudyStats(stats)
  \/ GetStudyStats
  \/ \E call \in SingletonCalls : PostIncreaseTime(call.seconds, call.category)

SpecSingletons == Init /\ [][NextSingletons]_vars

\* Inputs of the specification that runs MemStorage beside DbStorage.
BothStatsUpdates == { [dailyGoal |-> 3600] }
BothCalls == { Call(100, Some("Math")) }
BothSessions == { [timerType |-> "pomodoro"], [timerType |-> "stopwatch", duration |-> Some(60)] }

NextBoth ==
  \/ Tick(ShortHorizon)
  \/ \E stats \in BothStatsUpdates : BothUpdateStudyStats(stats)
  \/ \E call \in BothCalls : BothIncreaseStudyTime(call.seconds, call.category)
  \/ BothGetStudyStats
  \/ \E session \in BothSessions : BothCreateStudySession(session)

SpecBoth == Init /\ [][NextBoth]_vars

\* Inputs of the specification of concurrent DbStorage calls.
DbCalls == { Call(100, Some("Math")), Call(50, Some("Physics")) }
DbStatsUpdates == { [dailyGoal |-> 3600] }
DbSettingsUpdates == { [volume |-> 50] }

NextDb ==
  \/ \E client \in Clients, call \in DbCalls :
       IncreaseStudyTimeSelects(client, call.seconds, call.category)
  \/ \E client \in Clients : IncreaseStudyTimeWrites(client)
  \/ \E client \in Clients, stats \in DbStatsUpdates :
       UpdateStudyStatsSelects(client, stats)
  \/ \E client \in Clients : UpdateStudyStatsWrites(client)
  \/ \E client \in Clients, settings \in DbSettingsUpdates :
       UpdateTimerSettingsSelects(client, settings)
  \/ \E client \in Clients : UpdateTimerSettingsWrites(client)

SpecDb == Init /\ [][NextDb]_vars

NextFaults ==
  \/ \E session \in SessionInserts : PostStudySession(session, MaxCreditSessions)
  \/ \E id \in SessionIdParams(MaxCreditSessions), sessionData \in SessionUpdates :
       PutStudySession(id, sessionData)
  \/ \E id \in SessionIdParams(MaxCreditSessions), sessionData \in SessionUpdates :
       PutStudySessionFails(id, sessionData)
  \/ \E id \in SessionIdParams(MaxCreditSessions) : DeleteStudySession(id)

SpecFaults == Init /\ [][NextFaults]_vars

\* Inputs of the specification of the increase-time requests: the bodies sent
\* and the session updates that may complete a session.
IncreaseTimeBodies ==
  { [seconds |-> Number(100), category |-> "Math"],
    [seconds |-> Number(50)],
    [seconds |-> Number(0), category |-> "Math"],
    [seconds |-> Number(-5)],
    [seconds |-> String(100), category |-> "Math"],
    [seconds |-> JsonNull],
    [category |-> "Math"] }
IncreaseSessionUpdates ==
  { [completed |-> TRUE, duration |-> Some(1800)],
    [completed |-> TRUE, duration |-> Some(0)],
    [completed |-> TRUE, duration |-> Some(-60)],
    [completed |-> TRUE, duration |-> Null] }

NextIncrease ==
  \/ Tick(ShortHorizon)
  \/ \E body \in IncreaseTimeBodies :
       /\ Len(log) < MaxIncreaseCalls
       /\ PostApiIncreaseTime(body)
  \/ \E session \in SessionInserts : PostStudySession(session, MaxCreditSessions)
  \/ \E id \in SessionIdParams(MaxCreditSessions),
        sessionData \in IncreaseSessionUpdates :
       /\ Len(log) < MaxIncreaseCalls
       /\ PutStudySession(id, sessionData)

SpecIncrease == Init /\ [][NextIncrease]_vars

\* Inputs of the specification of the ':id' handlers: the last segment of the
\* request path and the bodies sent.
IdSegments == {"1", "2", "1abc", "completed"}
HandlerSessionUpdates ==
  { [completed |-> TRUE, duration |-> Some(1800)], [notes |-> Some("revise")] }

NextHandlers ==
  \/ \E insertTask \in StoreTaskInserts : PostTask(insertTask)
  \/ \E segment \in IdSegments, updateData \in StoreTaskUpdates :
       PutApiTasks(segment, updateData)
  \/ \E segment \in IdSegments : DeleteApiTasks(segment)
  \/ \E session \in SessionInserts : PostStudySession(session, MaxCreditSessions)
  \/ \E segment \in IdSegments, sessionData \in HandlerSessionUpdates :
       PutApiStudySessions(segment, sessionData)
  \/ \E segment \in IdSegments : DeleteApiStudySessions(segment)

SpecHandlers == Init /\ [][NextHandlers]_vars

\* Inputs of the specification of the category ledger under requests: bodies
\* and session updates with a category, with none and with the empty string.
CategoryBodies ==
  { [seconds |-> Number(100), category |-> "Math"],
    [seconds |-> Number(50)],
    [seconds |-> Number(30), category |-> ""] }
CategorySessionUpdates ==
  { [completed |-> TRUE, duration |-> Some(1800)],
    [tags |-> Some(<<"", "Math">>)],
    [tags |-> Some(<< >>)] }

NextCategories ==
  \/ Tick(ShortHorizon)
  \/ \E body \in CategoryBodies :
       /\ Len(log) < MaxIncreaseCalls
       /\ PostApiIncreaseTime(body)
  \/ \E session \in SessionInserts : PostStudySession(session, MaxCreditSessions)
  \/ \E id \in SessionIdParams(MaxCreditSessions),
        sessionData \in CategorySessionUpdates :
       /\ Len(log) < MaxIncreaseCalls
       /\ PutStudySession(id, sessionData)

SpecCategories == Init /\ [][NextCategories]_vars

\* Inputs of the specification of the totals: task requests, session requests
\* and increase-time requests side by side.
TotalsBodies ==
  { [seconds |-> Number(100), category |-> "Math"],
    [seconds |-> Number(50), category |-> "constructor"],
    [seconds |-> Number(20)] }
TotalsSessionUpdates ==
  { [completed |-> TRUE, duration |-> Some(1800)],
    [tags |-> Some(<<"Math">>)] }

NextTotals ==
  \/ \E insertTask \in StoreTaskInserts : PostTask(insertTask)
  \/ \E id \in TaskIdParams : DeleteTask(id)
  \/ \E body \in TotalsBodies :
       /\ Len(log) < MaxIncreaseCalls
       /\ PostApiIncreaseTime(body)
  \/ \E session \in SessionInserts : PostStudySession(session, MaxCreditSessions)
  \/ \E id \in SessionIdParams(MaxCreditSessions),
        sessionData \in TotalsSessionUpdates :
       /\ Len(log) < MaxIncreaseCalls
       /\ PutStudySession(id, sessionData)
  \/ \E id \in SessionIdParams(MaxCreditSessions) : DeleteStudySession(id)

SpecTotals == Init /\ [][NextTotals]_vars

\* Inputs of the specification of session creation beside the requests that
\* write StudyStats.
CreateSessionInserts ==
  { [timerType |-> "stopwatch"],
    [timerType |-> "pomodoro", completed |-> TRUE, duration |-> Some(1800),
     tags |-> Some(<<"Math">>)] }
CreateSessionUpdates == { [completed |-> TRUE, duration |-> Some(600)] }
CreateBodies == { [seconds |-> Number(100), category |-> "Math"] }
CreateStatsUpdates == { [totalStudyTime |-> 0] }

NextCreate ==
  \/ \E session \in CreateSessionInserts :
       PostStudySession(session, MaxCreditSessions)
  \/ \E id \in SessionIdParams(MaxCreditSessions),
        sessionData \in CreateSessionUpdates :
       /\ Len(log) < MaxIncreaseCalls
       /\ PutStudySession(id, sessionData)
  \/ \E id \in SessionIdParams(MaxCreditSessions) : DeleteStudySession(id)
  \/ \E body \in CreateBodies :
       /\ Len(log) < MaxIncreaseCalls
       /\ PostApiIncreaseTime(body)
  \/ \E stats \in CreateStatsUpdates : PutStudyStats(stats)
  \/ GetStudyStats
  \/ \E insertTask \in StoreTaskInserts : PostTask(insertTask)

SpecCreate == Init /\ [][NextCreate]_vars

\* Inputs of the routing specification: the last segment of the request path.
TaskSegments == {"1", "2", "3", "completed"}
SessionSegments == {"1", "2", "date-range"}
RangeQueries ==
  { EmptyObject,
    [startDate |-> "1970-01-01", endDate |-> "1970-01-02"],
    [startDate |-> "yesterday", endDate |-> "1970-01-02"] }

NextRoutes ==
  \/ \E insertTask \in TaskInserts : PostTask(insertTask)
  \/ \E id \in TaskIdParams, updateData \in StoreTaskUpdates :
       PutTask(id, updateData)
  \/ \E segment \in TaskSegments : DeleteApiTasks(segment)
  \/ GetTasks
  \/ \E session \in SessionInserts : PostStudySession(session, MaxSessions)
  \/ \E segment \in SessionSegments, query \in RangeQueries :
       GetApiStudySessions(segment, query)

SpecRoutes == Init /\ [][NextRoutes]_vars

\* ------------------------------------------------------------ streak claims
\* A step in which a handler called storage.increaseStudyTime.
IncStep == now' = now /\ last'.calls # << >>

\* Any request (every step but a clock tick).
RequestStep == now' = now

Max(S) == CHOOSE m \in S : \A e \in S : e <= m

\* The number of consecutive days of S that end with its latest day.
ConsecutiveDays(S) ==
  Cardinality({d \in S : \A e \in d .. Max(S) : e \in S})

\* C1: increaseStudyTime sets streakDays to 1 when lastStudyDate is absent, to
\* the old value + 1 when the last study day is yesterday, to 1 when it is
\* before yesterday, and leaves it unchanged when it is today; in every case
\* lastStudyDate becomes the time of the call.
C1_StreakRule ==
  [][IncStep =>
       LET old == Stats
           new == Stats'
           today == setHoursZero(now)
           yesterday == today - TicksPerDay
       IN /\ old.lastStudyDate = Null => new.streakDays = 1
          /\ old.lastStudyDate # Null =>
               LET lastDay == setHoursZero(old.lastStudyDate[1])
               IN /\ lastDay = yesterday => new.streakDays = old.streakDays + 1
                  /\ lastDay < yesterday => new.streakDays = 1
                  /\ lastDay = today => new.streakDays = old.streakDays
          /\ new.lastStudyDate = Some(now)]_vars

\* A call on the day after the previous call's day has just raised the streak
\* to 2, and lastStudyDate carries the call's time of day.
C1_Witness ==
  /\ last.calls # << >>
  /\ writes = 0
  /\ Len(log) = 2
  /\ studyDays = {0, 1}
  /\ Stats.streakDays = 2
  /\ Stats.lastStudyDate = Some(now)
  /\ now # setHoursZero(now)

\* C2: from a StudyStats without lastStudyDate, after increaseStudyTime calls
\* alone, streakDays is the number of consecutive calendar days with a call
\* that end on the day of the most recent call.
C2_StreakCountsConsecutiveDays ==
  (writes = 0 /\ log # << >>) => Stats.streakDays = ConsecutiveDays(studyDays)

\* Calls on days D, D, D+1, D+3: the streak is back to 1.
C2_Witness ==
  /\ writes = 0
  /\ Len(log) = 4
  /\ studyDays = {0, 1, 3}
  /\ last.calls # << >>
  /\ Stats.streakDays = 1

\* C3: once increaseStudyTime has been called, streakDays is at least 1.
C3_StreakAtLeastOne ==
  log # << >> => Stats.streakDays >= 1

\* C4 as stated: of two requests served on the same calendar day, the later
\* never leaves streakDays smaller than the earlier left it.
C4_MonotonicWithinDay ==
  [][(RequestStep /\ opToday) => Stats'.streakDays >= Stats.streakDays]_vars

\* C4 as amended: of two increaseStudyTime calls on the same calendar day with
\* no write of streakDays or lastStudyDate between them, the later never leaves
\* streakDays smaller than the earlier left it.
C4_MonotonicBetweenCalls ==
  [][(IncStep /\ incToday) => Stats'.streakDays >= Stats.streakDays]_vars

\* Three calls, the last two on day 1, with a write of dailyGoal among them.
C4_Witness ==
  /\ last.calls # << >>
  /\ incToday
  /\ Len(log) = 3
  /\ studyDays = {0, 1}
  /\ DayOf(now) = 1
  /\ writes = 1
  /\ Stats.dailyGoal = 3600
  /\ Stats.streakDays = 2
  /\ Stats.totalStudyTime = 300

\* ------------------------------------------------------------ ledger claims
\* The seconds of a sequence of calls, summed.
RECURSIVE SumSeconds(_)
SumSeconds(calls) ==
  IF calls = << >> THEN 0
  ELSE Head(calls).seconds + SumSeconds(Tail(calls))

\* C5: from the default StudyStats, after increaseStudyTime calls alone,
\* totalStudyTime is the sum of all seconds passed, timeByCategory[c] is the sum
\* of the seconds passed with category c, and a category never passed has no key.
C5_LedgerSums ==
  writes = 0 =>
    /\ Stats.totalStudyTime = SumSeconds(log)
    /\ \A c \in CategoryNames :
         LET WithC(call) == call.category = Some(c)
             passed == \E i \in 1 .. Len(log) : WithC(log[i])
         IN /\ c \in DOMAIN Stats.timeByCategory <=> passed
            /\ passed => Stats.timeByCategory[c] = SumSeconds(SelectSeq(log, WithC))

\* ----------------------------------------------------------- session claims
\* The own entry of a category in timeByCategory, or undefined.
ownTime(stats, category) == MapGet(stats.timeByCategory, category)

\* C6: a PUT /api/study-sessions/:id that leaves the session completed with
\* duration > 0 calls increaseStudyTime exactly once, with that duration and the
\* first tag as category (none when tags is empty or null), and no other tag of
\* the session gains time in timeByCategory.
C6_CreditsFirstTag ==
  [][(RequestStep /\ last'.op = "putStudySession" /\ last'.status = 200) =>
       LET session == studySessionsMap'[last'.id[1]]
       IN (/\ session.completed
           /\ session.duration # Null
           /\ session.duration[1] > 0) =>
            LET category == IF session.tags = Null \/ session.tags = Some(<< >>)
                              THEN Undefined
                              ELSE Some(Head(session.tags[1]))
                others == IF session.tags = Null THEN {}
                          ELSE {session.tags[1][i] : i \in 2 .. Len(session.tags[1])}
                            \ {category[i] : i \in 1 .. Len(category)}
            IN /\ last'.calls = <<Call(session.duration[1], category)>>
               /\ studyStatsInstance' =
                    increaseStudyTime(studyStatsInstance, session.duration[1],
                                      category, now)
               /\ \A tag \in others :
                    ownTime(Stats', tag) = ownTime(Stats, tag)]_vars

\* A session tagged Math, Review has just been completed with 1800 seconds:
\* Math holds them, Review has no entry.
C6_Witness ==
  /\ last.op = "putStudySession"
  /\ last.status = 200
  /\ last.calls = <<Call(1800, Some("Math"))>>
  /\ studySessionsMap[1].tags = Some(<<"Math", "Review">>)
  /\ studySessionsMap[1].completed
  /\ DOMAIN Stats.timeByCategory = {"Math"}
  /\ Stats.timeByCategory["Math"] = 1800
  /\ Stats.totalStudyTime = 1800

\* C7: over any sequence of PUT /api/study-sessions/:id requests a session's
\* duration is credited to StudyStats at most once.
C7_CreditedAtMostOnce ==
  \A i, j \in 1 .. Len(credited) : i # j => credited[i] # credited[j]

\* ------------------------------------------------------------- store claims
StrictlyIncreasing(ids) ==
  \A i, j \in 1 .. Len(ids) : i < j => ids[i] < ids[j]

\* C8: the ids createTask assigns, and those createStudySession assigns, are
\* strictly increasing in creation order, whatever was deleted in between.
C8_IdsStrictlyIncreasing ==
  /\ StrictlyIncreasing(taskIdsCreated)
  /\ StrictlyIncreasing(sessionIdsCreated)

\* Of each kind a record was created and deleted and a second one created.
C8_Witness ==
  /\ taskIdsCreated = <<1, 2>>
  /\ DOMAIN tasksMap = {2}
  /\ sessionIdsCreated = <<1, 2>>
  /\ DOMAIN studySessionsMap = {2}
  /\ last.op = "postStudySession"

\* C9: getTask(id) right after createTask returns the supplied text, completed
\* = false unless true was supplied, and dueDate = null unless supplied.
C9_CreatedTaskIsStored ==
  last.op = "postTask" =>
    LET insertTask == last.arg
        got == MapGet(tasksMap, last.id[1])
    IN /\ got # Undefined
       /\ got = last.ret
       /\ got[1].text = insertTask.text
       /\ got[1].completed =
            ("completed" \in DOMAIN insertTask /\ insertTask.completed)
       /\ got[1].dueDate =
            IF "dueDate" \in DOMAIN insertTask THEN insertTask.dueDate ELSE Null

\* A task created with completed = true and no dueDate.
C9_Witness ==
  /\ last.op = "postTask"
  /\ DOMAIN last.arg = {"text", "completed"}
  /\ last.arg.completed
  /\ tasksMap[last.id[1]].text = "Read"
  /\ tasksMap[last.id[1]].completed
  /\ tasksMap[last.id[1]].dueDate = Null
  /\ tasksMap[last.id[1]].createdAt = 1

\* C10: updateTask and updateStudySession on an absent id return undefined,
\* create no record and modify none.
C10_UpdateMissChangesNothing ==
  [][/\ (/\ RequestStep
         /\ last'.op = "putTask"
         /\ ~isNaN(last'.id)
         /\ last'.id[1] \notin DOMAIN tasksMap)
          => /\ last'.ret = Undefined
             /\ tasksMap' = tasksMap
             /\ studySessionsMap' = studySessionsMap
     /\ (/\ RequestStep
         /\ last'.op = "putStudySession"
         /\ ~isNaN(last'.id)
         /\ last'.id[1] \notin DOMAIN studySessionsMap)
          => /\ last'.ret = Undefined
             /\ tasksMap' = tasksMap
             /\ studySessionsMap' = studySessionsMap]_vars

\* An update of session 2 was answered 404 while task 1 and session 1 exist.
C10_Witness ==
  /\ last.op = "putStudySession"
  /\ last.status = 404
  /\ last.id = Some(2)
  /\ last.ret = Undefined
  /\ DOMAIN studySessionsMap = {1}
  /\ DOMAIN tasksMap = {1}

\* The record new is the record old with exactly the fields of data overwritten.
MergedOver(new, old, data) ==
  /\ DOMAIN new = DOMAIN old
  /\ \A k \in DOMAIN old :
       new[k] = IF k \in DOMAIN data THEN data[k] ELSE old[k]

\* C11: an update of an existing task or study session overwrites exactly the
\* supplied fields, keeps every other field at its prior value, returns the
\* merged record, and never changes the record's id or a task's createdAt.
C11_UpdateMergesSuppliedFields ==
  [][/\ (RequestStep /\ last'.op = "putTask" /\ last'.status = 200) =>
          LET id == last'.id[1]
          IN /\ MergedOver(tasksMap'[id], tasksMap[id], last'.arg)
             /\ last'.ret = Some(tasksMap'[id])
             /\ tasksMap'[id].id = id
             /\ tasksMap'[id].createdAt = tasksMap[id].createdAt
     /\ (RequestStep /\ last'.op = "putStudySession" /\ last'.status = 200) =>
          LET id == last'.id[1]
          IN /\ MergedOver(studySessionsMap'[id], studySessionsMap[id], last'.arg)
             /\ last'.ret = Some(studySessionsMap'[id])
             /\ studySessionsMap'[id].id = id]_vars

\* Task 1 was updated with {completed: true} and keeps its text; session 1
\* carries the notes of an earlier update and keeps its timer type.
C11_Witness ==
  /\ last.op = "putTask"
  /\ last.status = 200
  /\ last.id = Some(1)
  /\ last.arg = [completed |-> TRUE]
  /\ last.ret = Some(tasksMap[1])
  /\ tasksMap[1].completed
  /\ tasksMap[1].text = "Buy milk"
  /\ 1 \in DOMAIN studySessionsMap
  /\ studySessionsMap[1].notes = Some("revise")
  /\ studySessionsMap[1].timerType = "pomodoro"

\* C12: a delete is answered "removed" exactly when a record with that id
\* existed, never with an error; afterwards a get of that id finds nothing and
\* a second delete of the same id is answered "absent".
C12_DeleteReportsRemoval ==
  [][/\ (RequestStep /\ last'.op = "deleteTask" /\ ~isNaN(last'.id)) =>
          LET id == last'.id[1]
          IN /\ last'.status = IF id \in DOMAIN tasksMap THEN 204 ELSE 404
             /\ MapGet(tasksMap', id) = Undefined
             /\ (last.op = "deleteTask" /\ last.id = last'.id) =>
                  last'.status = 404
     /\ (RequestStep /\ last'.op = "deleteStudySession" /\ ~isNaN(last'.id)) =>
          LET id == last'.id[1]
          IN /\ last'.status = IF id \in DOMAIN studySessionsMap THEN 204 ELSE 404
             /\ MapGet(studySessionsMap', id) = Undefined
             /\ (last.op = "deleteStudySession" /\ last.id = last'.id) =>
                  last'.status = 404]_vars

\* Task 1 and session 1 were created and deleted, and a further delete of
\* task 1 was answered 404.
C12_Witness ==
  /\ last.op = "deleteTask"
  /\ last.id = Some(1)
  /\ last.status = 404
  /\ taskIdsCreated = <<1>>
  /\ tasksMap = EmptyObject
  /\ sessionIdsCreated = <<1>>
  /\ studySessionsMap = EmptyObject

\* ------------------------------------------------------------ query claims
\* The sequence list holds exactly the records of the set stored, once each.
ExactlyOnce(list, stored) ==
  /\ Len(list) = Cardinality(stored)
  /\ \A record \in stored : \E i \in 1 .. Len(list) : list[i] = record

\* The sequence list is ordered by field, largest first.
NewestFirst(list, field) ==
  \A i, j \in 1 .. Len(list) : i < j => list[i][field] >= list[j][field]

\* The records a map holds.
Stored(map) == {map[id] : id \in DOMAIN map}

\* C13: in every reachable state getTasks returns exactly the stored tasks by
\* createdAt descending and getStudySessions exactly the stored sessions by
\* startTime descending, and the GET handlers answer with those sequences.
C13_ListsNewestFirst ==
  /\ ExactlyOnce(getTasks(tasksMap), Stored(tasksMap))
  /\ NewestFirst(getTasks(tasksMap), "createdAt")
  /\ ExactlyOnce(getStudySessions(studySessionsMap), Stored(studySessionsMap))
  /\ NewestFirst(getStudySessions(studySessionsMap), "startTime")
  /\ last.op = "getTasks" => last.ret = Some(getTasks(tasksMap))
  /\ last.op = "getStudySessions" =>
       last.ret = Some(getStudySessions(studySessionsMap))

\* Two tasks created at different times and two sessions are stored; an update
\* moved the startTime of session 1 past that of session 2, and the list of
\* sessions just returned has session 1 first.
C13_Witness ==
  /\ last.op = "getStudySessions"
  /\ DOMAIN studySessionsMap = {1, 2}
  /\ studySessionsMap[1].startTime > studySessionsMap[2].startTime
  /\ last.ret = Some(<<studySessionsMap[1], studySessionsMap[2]>>)
  /\ DOMAIN tasksMap = {1, 2}
  /\ tasksMap[2].createdAt > tasksMap[1].createdAt
  /\ getTasks(tasksMap) = <<tasksMap[2], tasksMap[1]>>

\* C14: getStudySessionsByDateRange(start, end) returns exactly the stored
\* sessions with start <= startTime <= end, newest first, and the empty
\* sequence when start > end.
C14_DateRangeInclusive ==
  last.op = "getStudySessionsByDateRange" =>
    LET startDate == last.arg.startDate
        endDate == last.arg.endDate
        list == last.ret[1]
        inRange == {session \in Stored(studySessionsMap) :
                      startDate <= session.startTime /\ session.startTime <= endDate}
    IN /\ ExactlyOnce(list, inRange)
       /\ NewestFirst(list, "startTime")
       /\ startDate > endDate => list = << >>

\* A range query whose end is the startTime of session 1 returned session 1
\* alone: session 2 starts before the range.
C14_Witness ==
  /\ last.op = "getStudySessionsByDateRange"
  /\ last.arg.startDate < last.arg.endDate
  /\ DOMAIN studySessionsMap = {1, 2}
  /\ studySessionsMap[1].startTime = last.arg.endDate
  /\ studySessionsMap[2].startTime < last.arg.startDate
  /\ last.ret = Some(<<studySessionsMap[1]>>)

\* -------------------------------------------------------- singleton claims
\* The singleton after is the singleton before with the fields of partial
\* merged in; where there was none, the defaults with them merged in.
LazyMerged(after, before, defaults, partial) ==
  /\ after # Undefined
  /\ before = Undefined => after = Some(Spread(defaults, partial))
  /\ before # Undefined =>
       /\ DOMAIN after[1] = (DOMAIN before[1]) \cup (DOMAIN partial)
       /\ \A k \in DOMAIN partial : after[1][k] = partial[k]
       /\ \A k \in (DOMAIN before[1]) \ (DOMAIN partial) :
            after[1][k] = before[1][k]

\* C16: updateTimerSettings and updateStudyStats create the record from the
\* defaults and merge when there is none, otherwise overwrite only the supplied
\* fields, and return the record; a get never finds the singleton absent after
\* a write (here: never at all, the constructor having created both) and
\* returns the record as it stands.
C16_SingletonLazyMerge ==
  [][/\ (RequestStep /\ last'.op = "putTimerSettings") =>
          /\ LazyMerged(timerSettingsInstance', timerSettingsInstance,
                        defaultSettings, last'.arg)
          /\ last'.ret = timerSettingsInstance'
     /\ (RequestStep /\ last'.op = "putStudyStats") =>
          /\ LazyMerged(studyStatsInstance', studyStatsInstance, defaultStats,
                        last'.arg)
          /\ last'.ret = studyStatsInstance'
     /\ (RequestStep /\ last'.op = "getTimerSettings") =>
          last'.ret # Undefined /\ last'.ret = timerSettingsInstance
     /\ (RequestStep /\ last'.op = "getStudyStats") =>
          last'.ret # Undefined /\ last'.ret = studyStatsInstance]_vars

\* The volume was just written over settings that carry an earlier write of
\* the alarm sound, and the statistics carry a written daily goal next to
\* credited study time.
C16_Witness ==
  /\ last.op = "putTimerSettings"
  /\ last.arg = [volume |-> 50]
  /\ timerSettingsInstance[1].volume = 50
  /\ timerSettingsInstance[1].alarmSound = "chime"
  /\ timerSettingsInstance[1].autoStartBreak
  /\ timerSettingsInstance[1].pomodoroMinutes = 25
  /\ writes > 0
  /\ Stats.dailyGoal = 3600
  /\ Stats.totalStudyTime = 100

\* ------------------------------------------------------ equivalence claims
\* C17: driven by the same updateStudyStats, increaseStudyTime and
\* getStudyStats calls at the same clock values, MemStorage and DbStorage
\* return the same streakDays, totalStudyTime and timeByCategory after every
\* call, and createStudySession fills the same defaults in both (tags = the
\* empty sequence and duration = 0 where the caller supplied none).
C17_MemAndDbAgree ==
  /\ last.op \in {"updateStudyStats", "increaseStudyTime", "getStudyStats"} =>
       LET mem == last.ret[1].mem
           db == last.ret[1].db
       IN /\ mem # Undefined
          /\ db # Undefined
          /\ mem[1].streakDays = db[1].streakDays
          /\ mem[1].totalStudyTime = db[1].totalStudyTime
          /\ mem[1].timeByCategory = db[1].timeByCategory
  /\ last.op = "createStudySession" =>
       LET mem == last.ret[1].mem[1]
           db == last.ret[1].db[1]
       IN /\ mem.tags = db.tags
          /\ mem.duration = db.duration
          /\ "tags" \notin DOMAIN last.arg => mem.tags = Some(<< >>)
          /\ "duration" \notin DOMAIN last.arg => mem.duration = Some(0)

\* ----------------------------------------------------- concurrency claims
\* No DbStorage call is in progress.
Idle == \A client \in Clients : dbCalls[client] = NoCall

\* C18: increaseStudyTime is a non-interleaved read-modify-write of the
\* StudyStats singleton. Once every call has returned, the singleton's
\* totalStudyTime is the sum of the seconds of all calls and every category
\* holds the sum of the seconds passed with it, however the calls of
\* concurrent DbStorage clients interleaved at their awaits.
C18_NoLostUpdate ==
  (Idle /\ writes = 0 /\ Len(dbStudyStats) = 1) =>
    LET stats == dbStudyStats[1]
    IN /\ stats.totalStudyTime = SumSeconds(log)
       /\ \A i \in 1 .. Len(log) :
            LET WithC(call) == call.category = log[i].category
            IN /\ log[i].category[1] \in DOMAIN stats.timeByCategory
               /\ stats.timeByCategory[log[i].category[1]] =
                    SumSeconds(SelectSeq(log, WithC))

\* C19: whatever the interleaving of concurrent updateTimerSettings,
\* updateStudyStats and increaseStudyTime calls, there is at most one
\* TimerSettings record and at most one StudyStats record.
C19_AtMostOneSingleton ==
  /\ Len(dbTimerSettings) <= 1
  /\ Len(dbStudyStats) <= 1

\* ------------------------------------------------------- failure claims
\* C20: a PUT /api/study-sessions/:id request that is answered 500 because
\* increaseStudyTime failed leaves the session record as it was before the
\* request, so no failed request leaves a session completed without its
\* duration being credited.
C20_FailedUpdateChangesNothing ==
  [][(RequestStep /\ last'.op = "putStudySession" /\ last'.status = 500) =>
       studySessionsMap' = studySessionsMap]_vars

\* ------------------------------------------------------------ route claims
\* The request just served was DELETE /api/tasks/completed.
ClearCompletedRequested(request) ==
  \/ request.op = "clearCompletedTasks"
  \/ request.op = "deleteTask" /\ request.arg = [id |-> "completed"]

DateRangeRequested(request) ==
  \/ request.op = "getStudySessionsByDateRange"
  \/ request.op = "getStudySession" /\ request.arg = [id |-> "date-range"]

\* C21: a request whose path is a literal registered route reaches that route's
\* own handler: DELETE /api/tasks/completed is served by the clear-completed
\* handler and GET /api/study-sessions/date-range by the date-range handler,
\* and neither is answered by the ':id' handler registered before it.
C21_LiteralRouteReachesOwnHandler ==
  [][RequestStep =>
       /\ ClearCompletedRequested(last') =>
            last'.op = "clearCompletedTasks" /\ last'.status = 204
       /\ DateRangeRequested(last') =>
            last'.op = "getStudySessionsByDateRange"]_vars

\* ----------------------------------------------------- validation claims
\* The seconds of a request body are a number greater than 0.
PositiveSeconds(body) ==
  /\ "seconds" \in DOMAIN body
  /\ body.seconds.typeof = "number"
  /\ body.seconds.value > 0

\* C22: POST /api/study-stats/increase-time with seconds that is not a number
\* or is <= 0 is answered 400 and leaves totalStudyTime, streakDays,
\* lastStudyDate and timeByCategory unchanged, and every increaseStudyTime call
\* a handler makes passes seconds > 0.
C22_InvalidSecondsRejected ==
  [][RequestStep =>
       /\ (last'.op = "postIncreaseTime" /\ ~PositiveSeconds(last'.arg)) =>
            /\ last'.status = 400
            /\ last'.calls = << >>
            /\ Stats'.totalStudyTime = Stats.totalStudyTime
            /\ Stats'.streakDays = Stats.streakDays
            /\ Stats'.lastStudyDate = Stats.lastStudyDate
            /\ Stats'.timeByCategory = Stats.timeByCategory
       /\ \A i \in 1 .. Len(last'.calls) : last'.calls[i].seconds > 0]_vars

\* After a credited request, a body whose seconds is the string "100" has
\* just been rejected, and a PUT had left a session completed with a duration
\* of 0 without a call.
C22_Witness ==
  /\ last.op = "postIncreaseTime"
  /\ last.status = 400
  /\ last.arg = [seconds |-> String(100), category |-> "Math"]
  /\ Len(log) = 1
  /\ Stats.totalStudyTime = 100
  /\ \E id \in DOMAIN studySessionsMap :
       studySessionsMap[id].completed /\ studySessionsMap[id].duration = Some(0)

\* Every character of the segment is a decimal digit.
NumericSegment(segment) ==
  \A i \in 1 .. Len(Characters[segment]) :
    Characters[segment][i] \in DOMAIN Digits

\* Tasks, sessions and StudyStats are as they were.
StoresUnchanged ==
  /\ tasksMap' = tasksMap
  /\ studySessionsMap' = studySessionsMap
  /\ studyStatsInstance' = studyStatsInstance

\* C23: in the PUT and DELETE handlers of /api/tasks/:id and
\* /api/study-sessions/:id, a non-numeric id is answered 400 without a call of
\* the store; an absent id is answered 404, and a 404 leaves tasks, sessions
\* and StudyStats unchanged; 204 is answered only by a delete that removed the
\* record, and a record is returned only by an update that merged the body
\* into it.
C23_HandlersMapOutcomes ==
  [][(RequestStep
        /\ last'.op \in {"putTask", "deleteTask", "putStudySession",
                         "deleteStudySession"}) =>
       LET segment == last'.arg.id
           id == parseInt(segment)
           onTasks == last'.op \in {"putTask", "deleteTask"}
           map == IF onTasks THEN tasksMap ELSE studySessionsMap
           mapAfter == IF onTasks THEN tasksMap' ELSE studySessionsMap'
       IN /\ ~NumericSegment(segment) =>
               last'.status = 400 /\ last'.calls = << >> /\ StoresUnchanged
          /\ (NumericSegment(segment) /\ id[1] \notin DOMAIN map) =>
               last'.status = 404
          /\ last'.status = 404 => StoresUnchanged
          /\ last'.status = 204 =>
               /\ last'.op \in {"deleteTask", "deleteStudySession"}
               /\ id[1] \in DOMAIN map
               /\ id[1] \notin DOMAIN mapAfter
          /\ last'.ret # Undefined =>
               /\ last'.status = 200
               /\ id[1] \in DOMAIN map
               /\ last'.ret = Some(Spread(map[id[1]], last'.arg.body))
               /\ mapAfter[id[1]] = last'.ret[1]]_vars

\* ------------------------------------------------------- category claims
\* C24: increaseStudyTime called with no category or with the empty string as
\* category adds seconds to totalStudyTime, sets lastStudyDate to the time of
\* the call and streakDays by the streak rule, and leaves timeByCategory
\* unchanged, with no key for the empty string.
C24_NoCategoryLeavesLedger ==
  [][(IncStep /\ last'.calls[1].category \in {Undefined, Some("")}) =>
       /\ Stats'.totalStudyTime = Stats.totalStudyTime + last'.calls[1].seconds
       /\ Stats'.lastStudyDate = Some(now)
       /\ Stats'.streakDays = streakDaysAfter(Stats, now)
       /\ Stats'.timeByCategory = Stats.timeByCategory
       /\ "" \notin DOMAIN Stats'.timeByCategory]_vars

\* A PUT has just completed a session whose first tag is the empty string,
\* after a request that credited "Math".
C24_Witness ==
  /\ last.op = "putStudySession"
  /\ last.calls = <<Call(1800, Some(""))>>
  /\ last.ret[1].tags = Some(<<"", "Math">>)
  /\ Stats.totalStudyTime = 1900
  /\ Stats.timeByCategory = [Math |-> 100]
  /\ Stats.streakDays = 1
  /\ Stats.lastStudyDate = Some(now)

\* The values of a category ledger, summed.
RECURSIVE SumValues(_)
SumValues(timeByCategory) ==
  IF DOMAIN timeByCategory = {} THEN 0
  ELSE LET k == CHOOSE key \in DOMAIN timeByCategory : TRUE
       IN timeByCategory[k]
            + SumValues([j \in (DOMAIN timeByCategory) \ {k} |->
                           timeByCategory[j]])

\* C25: in every state reached by task requests, session requests and
\* increaseStudyTime calls with seconds > 0, without a write of StudyStats,
\* every value of timeByCategory is a positive number, their sum is at most
\* totalStudyTime, and totalStudyTime never decreases from one state to the
\* next.
C25_LedgerWithinTotal ==
  [][writes' = 0 =>
       /\ \A k \in DOMAIN Stats'.timeByCategory :
            /\ Stats'.timeByCategory[k] # NonNumber
            /\ Stats'.timeByCategory[k] > 0
       /\ SumValues(Stats'.timeByCategory) <= Stats'.totalStudyTime
       /\ Stats'.totalStudyTime >= Stats.totalStudyTime]_vars

\* ---------------------------------------------------------- frame claims
\* Every category but the given one has the time it had, or none as before.
OthersUnchanged(old, new, category) ==
  \A k \in ((DOMAIN old) \cup (DOMAIN new)) :
    category = Some(k) \/
      (k \in DOMAIN old /\ k \in DOMAIN new /\ new[k] = old[k])

\* The goals and the identity of a StudyStats record are as they were.
GoalsUnchanged(old, new) ==
  /\ new.id = old.id
  /\ new.userId = old.userId
  /\ new.dailyGoal = old.dailyGoal
  /\ new.weeklyGoal = old.weeklyGoal

\* The step in which the DbStorage.increaseStudyTime call of a client writes.
DbIncreaseWrites(client) ==
  dbCalls[client].op = "increaseStudyTime" /\ dbCalls'[client] = NoCall

\* C26: increaseStudyTime changes only totalStudyTime, streakDays,
\* lastStudyDate and timeByCategory of the StudyStats singleton: the record's
\* id, userId, dailyGoal and weeklyGoal, the time of every category other than
\* the one passed, and all tasks, study sessions and TimerSettings are left as
\* they were, in MemStorage and in the update of DbStorage.
C26_IncreaseStudyTimeFrame ==
  [][/\ (IncStep /\ last'.op = "postIncreaseTime") =>
          /\ GoalsUnchanged(Stats, Stats')
          /\ OthersUnchanged(Stats.timeByCategory, Stats'.timeByCategory,
                             last'.calls[1].category)
          /\ UNCHANGED <<tasksMap, studySessionsMap, timerSettingsInstance>>
     /\ \A client \in Clients :
          (DbIncreaseWrites(client)
             /\ dbCalls[client].currentStats # Undefined) =>
            LET id == dbCalls[client].currentStats[1].id
            IN /\ Len(dbStudyStats') = Len(dbStudyStats)
               /\ \A i \in 1 .. Len(dbStudyStats) :
                    IF dbStudyStats[i].id = id
                      THEN /\ GoalsUnchanged(dbStudyStats[i], dbStudyStats'[i])
                           /\ OthersUnchanged(dbStudyStats[i].timeByCategory,
                                              dbStudyStats'[i].timeByCategory,
                                              dbCalls[client].category)
                      ELSE dbStudyStats'[i] = dbStudyStats[i]
               /\ UNCHANGED <<tasksMap, studySessionsMap, dbStudySessions,
                              dbTimerSettings, timerSettingsInstance>>]_vars

\* C27: creating a study session never changes StudyStats, even when the
\* session is created with completed = true and duration > 0; only
\* PUT /api/study-sessions/:id, POST /api/study-stats/increase-time and
\* PUT /api/study-stats change totalStudyTime, streakDays or timeByCategory.
C27_CreateLeavesStats ==
  [][RequestStep =>
       /\ last'.op = "postStudySession" =>
            studyStatsInstance' = studyStatsInstance
       /\ last'.op \notin {"putStudySession", "postIncreaseTime",
                           "putStudyStats"} =>
            /\ Stats'.totalStudyTime = Stats.totalStudyTime
            /\ Stats'.streakDays = Stats.streakDays
            /\ Stats'.timeByCategory = Stats.timeByCategory]_vars

\* A session has just been created completed, with a duration of 1800 and the
\* tag "Math", after an increase-time request credited 100 seconds.
C27_Witness ==
  /\ last.op = "postStudySession"
  /\ last.status = 201
  /\ last.ret[1].completed
  /\ last.ret[1].duration = Some(1800)
  /\ last.ret[1].tags = Some(<<"Math">>)
  /\ Len(log) = 1
  /\ Stats.totalStudyTime = 100
  /\ Stats.timeByCategory = [Math |-> 100]

Next ==
  \/ NextStreak \/ NextLedger \/ NextTasks \/ NextSessions \/ NextStore
  \/ NextQueries \/ NextRoutes \/ NextSingletons \/ NextBoth \/ NextDb
  \/ NextFaults \/ NextIncrease \/ NextHandlers \/ NextCategories
  \/ NextTotals \/ NextCreate

Spec == Init /\ [][Next]_vars
====
